---- MODULE Spec2Model ----
(***************************************************************************)
(* Model of clusternet's shadow API installation                           *)
(* (pkg/hub/apiserver/shadow/apiserver.go) and of its cluster status       *)
(* controller (pkg/controllers/clusters/clusterstatus).                    *)
(*                                                                         *)
(* Group names, versions and resource names are sequences of one-character *)
(* strings, so that strings.HasSuffix, strings.ToLower and                 *)
(* GroupVersion.String are computed and not assumed.                       *)
(***************************************************************************)
EXTENDS Integers, Sequences, FiniteSets, TLC

(* ------------------------------------------------------------------ *)
(* Bounds of the model                                                 *)
(* ------------------------------------------------------------------ *)

\* most groups a downstream discovery answer holds
MaxGroups == 2

\* most group descriptors handed to installAPIGroups in one call
MaxBatch == 3

\* most collection rounds the cluster status controller starts
MaxRounds == 2

\* most calls of GetClusterStatus one caller makes
MaxCalls == 2
\* nodes in one list handed to getNodeStatistics
MaxNodes == 3

(* ------------------------------------------------------------------ *)
(* Strings                                                             *)
(* ------------------------------------------------------------------ *)

UpperChars == <<"A", "B", "C", "D", "E", "F", "G", "H", "I", "J", "K", "L", "M",
                "N", "O", "P", "Q", "R", "S", "T", "U", "V", "W", "X", "Y", "Z">>

LowerChars == <<"a", "b", "c", "d", "e", "f", "g", "h", "i", "j", "k", "l", "m",
                "n", "o", "p", "q", "r", "s", "t", "u", "v", "w", "x", "y", "z">>

ToLowerChar(c) ==
    IF \E i \in 1..Len(UpperChars) : UpperChars[i] = c
    THEN LowerChars[CHOOSE i \in 1..Len(UpperChars) : UpperChars[i] = c]
    ELSE c

\* strings.ToLower
ToLower(s) == [i \in 1..Len(s) |-> ToLowerChar(s[i])]

\* strings.HasSuffix
HasSuffix(s, suffix) ==
    /\ Len(s) >= Len(suffix)
    /\ SubSeq(s, Len(s) - Len(suffix) + 1, Len(s)) = suffix

\* schema.GroupVersion.String: "group/version", or "version" for the empty group
GroupVersionString(gv) ==
    IF Len(gv.Group) > 0 THEN gv.Group \o <<"/">> \o gv.Version ELSE gv.Version

(* ------------------------------------------------------------------ *)
(* Program constants                                                   *)
(* ------------------------------------------------------------------ *)

clusternetGroupSuffix == <<".", "c", "l", "u", "s", "t", "e", "r", "n", "e", "t", ".", "i", "o">>

\* shadowapi.GroupName
GroupName == <<"s", "h", "a", "d", "o", "w">>

\* shadowapi.SchemeGroupVersion.Version, and the key "v1alpha1" of the storage map
V1alpha1 == <<"v", "1", "a", "l", "p", "h", "a", "1">>

\* genericapiserver.APIGroupPrefix
APIGroupPrefix == <<"/", "a", "p", "i", "s">>

(* ------------------------------------------------------------------ *)
(* Input domains                                                       *)
(* ------------------------------------------------------------------ *)

V1 == <<"v", "1">>
V2 == <<"v", "2">>
NoString == <<>>

AppsGroup == <<"a", "p", "p", "s">>
CoreGroup == NoString
ReservedGroup == <<"a", ".", "c", "l", "u", "s", "t", "e", "r", "n", "e", "t", ".", "i", "o">>

DiscoveredGroupNames == {AppsGroup, CoreGroup, ReservedGroup, GroupName}
DiscoveredVersions == {V1, V2}

ResPods == [Name |-> <<"p", "o", "d", "s">>, Kind |-> "Pod", Namespaced |-> TRUE, ShortNames |-> <<"po">>]
ResPodsUpper == [Name |-> <<"P", "o", "d", "s">>, Kind |-> "PodX", Namespaced |-> TRUE, ShortNames |-> <<>>]
ResNodes == [Name |-> <<"n", "o", "d", "e", "s">>, Kind |-> "Node", Namespaced |-> FALSE, ShortNames |-> <<"no">>]

\* a subresource, of the kind of its resource
ResPodsStatus == [Name |-> <<"p", "o", "d", "s", "/", "s", "t", "a", "t", "u", "s">>, Kind |-> "Pod",
                  Namespaced |-> TRUE, ShortNames |-> <<>>]
\* a resource whose kind is the name of a type init() registers for the empty group
ResStatuses == [Name |-> <<"s", "t", "a", "t", "u", "s", "e", "s">>, Kind |-> "Status",
                Namespaced |-> FALSE, ShortNames |-> <<>>]

\* the resources a group may list under V1 and under V2
VersionedResourcesChoices ==
    { (V1 :> <<ResPods>>) @@ (V2 :> <<>>),
      (V1 :> <<ResPods>>) @@ (V2 :> <<ResPodsUpper, ResNodes>>),
      (V1 :> <<ResPods, ResPodsStatus, ResStatuses>>) @@ (V2 :> <<>>) }

\* one group of a discovery answer (restmapper.APIGroupResources)
DiscoveredGroups ==
    { [Group |-> [Name |-> n, PreferredVersion |-> [Version |-> pv[1]]],
       VersionedResources |-> pv[2]] :
        n \in DiscoveredGroupNames,
        pv \in { c \in DiscoveredVersions \X VersionedResourcesChoices :
                    c[1] = V1 \/ Len(c[2][V1]) = 1 } }

SeqsUpTo(S, n) == UNION { [1..k -> S] : k \in 0..n }

\* what the discovery client answers: an error (with whatever it had gathered)
\* or the groups of the downstream cluster
DiscoveryAnswers ==
    { [Err |-> TRUE, Groups |-> s] : s \in SeqsUpTo(DiscoveredGroups, 1) } \cup
    { [Err |-> FALSE, Groups |-> s] : s \in SeqsUpTo(DiscoveredGroups, MaxGroups) }

\* what a call returns: nil, one of the errors of the code, or a panic
ErrDiscovery == "discovery failed"
ErrEmptyGroup == "cannot register handler with an empty group"
ErrEmptyVersion == "cannot register handler with an empty version"
ErrInstall == "unable to install api resources"

FeatureGates == [StorageVersionAPI : BOOLEAN, APIServerIdentity : BOOLEAN]

(* ------------------------------------------------------------------ *)
(* Helpers on Go maps (functions with a finite domain)                 *)
(* ------------------------------------------------------------------ *)

EmptyMap == [k \in {} |-> k]

\* m[k] = v of a Go map
MapSet(m, k, v) == [x \in (DOMAIN m) \cup {k} |-> IF x = k THEN v ELSE m[x]]

\* len(m) of a Go map
MapLen(m) == Cardinality(DOMAIN m)

\* apiGroupInfo.VersionedResourcesStorageMap[version]: a missing key reads as the nil map
StorageMapOf(apiGroupInfo, version) ==
    IF version \in DOMAIN apiGroupInfo.VersionedResourcesStorageMap
    THEN apiGroupInfo.VersionedResourcesStorageMap[version]
    ELSE EmptyMap

\* ResourcesOf that reads the resources of the first version whatever version is asked
ResourcesOfFirstVersion(apiGroupResource, version) ==
    apiGroupResource.VersionedResources[V1]

\* apiGroupResource.VersionedResources[preferredVersion]: a missing key reads as the nil slice
ResourcesOf(apiGroupResource, version) ==
    IF version \in DOMAIN apiGroupResource.VersionedResources
    THEN apiGroupResource.VersionedResources[version]
    ELSE <<>>

(* ------------------------------------------------------------------ *)
(* The Scheme                                                          *)
(* ------------------------------------------------------------------ *)

GVK(group, version, kind) == [Group |-> group, Version |-> version, Kind |-> kind]

\* the types init() registers: the shadow group's own types and the meta v1 types
\* of the empty group, all of them typed
SchemeAtStart ==
    (GVK(GroupName, V1alpha1, "Manifest") :> "typed") @@
    (GVK(CoreGroup, V1, "Status") :> "typed") @@
    (GVK(CoreGroup, V1, "APIGroup") :> "typed")

\* Scheme.AddKnownTypeWithName panics on an empty version and on a second
\* registration of a gvk with another type
AddKnownTypePanics(scheme, gvk, strategy) ==
    \/ Len(gvk.Version) = 0
    \/ (gvk \in DOMAIN scheme /\ scheme[gvk] # strategy)

(* ------------------------------------------------------------------ *)
(* State                                                               *)
(* ------------------------------------------------------------------ *)

VARIABLES
    pc,                     \* where the installation stands
    result,                 \* "none" while running, then "nil", an error or "panic"
    cl,                     \* what the downstream discovery client answers
    apiGroupResources,      \* InstallShadowAPIGroups: the discovery answer
    gi,                     \* InstallShadowAPIGroups: index of the group being scanned
    ri,                     \* InstallShadowAPIGroups: index of the resource being mirrored
    Scheme,                 \* the process-wide Scheme: gvk -> type
    shadowv1alpha1storage,  \* InstallShadowAPIGroups: resource name -> adapter
    apiGroupInfos,          \* installAPIGroups: the batch of group descriptors
    i,                      \* installAPIGroups: loop index over the batch
    j,                      \* installAPIResources: loop index over PrioritizedVersions
    resourceInfos,          \* installAPIResources: the resource infos gathered so far
    routes,                 \* what InstallREST added to the GoRestfulContainer
    groupHandlers,          \* the APIGroup handlers added to the GoRestfulContainer
    discoveryGroups,        \* DiscoveryGroupManager: the groups added, in order
    storageVersions,        \* StorageVersionManager: the resource infos registered
    featureGates,           \* utilfeature.DefaultFeatureGate
    firstRun                \* what an earlier run of the installation on the same input published

installVars == <<pc, result, cl, apiGroupResources, gi, ri, Scheme, shadowv1alpha1storage,
                 apiGroupInfos, i, j, resourceInfos, routes, groupHandlers, discoveryGroups,
                 storageVersions, featureGates, firstRun>>

scanVars == <<apiGroupResources, gi, ri, shadowv1alpha1storage>>
serverVars == <<routes, groupHandlers, discoveryGroups, storageVersions>>

(* ------------------------------------------------------------------ *)
(* The cluster status controller: inputs and pure functions            *)
(* ------------------------------------------------------------------ *)

\* the nil pointer; the objects of the heap have the addresses 1, 2, ...
Nil == 0

\* the zero value of metav1.Time
ZeroTime == 0

\* http.StatusOK
StatusOK == 200

\* the callers of GetClusterStatus
Readers == {"r1", "r2"}

\* the fields NewController fills from its arguments and the feature gates
Config ==
    [apiserverURL |-> "https://child:6443", appPusherEnabled |-> TRUE,
     useSocket |-> TRUE, parentAPIServer |-> "https://parent:6443"]

\* a corev1.ResourceList with the two resources getNodeResource sums up
ResourceList(cpu, memory) == ("cpu" :> cpu) @@ ("memory" :> memory)

\* the nodes of the input: their conditions and resources
NodeWith(conditions) ==
    [Status |-> [Conditions |-> conditions,
                 Capacity |-> ResourceList(2, 4),
                 Allocatable |-> ResourceList(1, 3)]]

NodeReady ==
    NodeWith(<< [Type |-> "MemoryPressure", Status |-> "False"],
                [Type |-> "Ready", Status |-> "True"] >>)
NodeNotReady == NodeWith(<< [Type |-> "Ready", Status |-> "False"] >>)
NodeUnknown == NodeWith(<< [Type |-> "Ready", Status |-> "Unknown"] >>)
NodeLost == NodeWith(<< [Type |-> "MemoryPressure", Status |-> "False"] >>)
\* a node whose Ready condition was written without a status: ConditionStatus is
\* a string type, and the zero value is none of True, False, Unknown
NodeReadyUnset == NodeWith(<< [Type |-> "Ready", Status |-> ""] >>)
\* a node that reports no condition at all
NodeNoConditions == NodeWith(<< >>)
\* a node that reports the Ready condition twice: the first one is taken
NodeReadyTwice ==
    NodeWith(<< [Type |-> "Ready", Status |-> "False"], [Type |-> "Ready", Status |-> "True"] >>)

Nodes == {NodeReady, NodeNotReady, NodeUnknown, NodeLost, NodeReadyUnset, NodeNoConditions,
          NodeReadyTwice}

\* a round in which every query of collectingClusterStatus succeeds
AnswerOK ==
    [Version |-> [Err |-> FALSE, GitVersion |-> "v1.21.0", Platform |-> "linux/amd64"],
     Nodes |-> [Err |-> FALSE, Items |-> <<NodeReady, NodeNotReady, NodeUnknown, NodeLost>>],
     ClusterCIDR |-> [Err |-> FALSE, CIDR |-> "10.244.0.0/16"],
     ServiceCIDR |-> [Err |-> FALSE, CIDR |-> "10.96.0.0/12"],
     StatusCode |-> [healthz |-> 200, livez |-> 200, readyz |-> 200]]

\* what the cluster answers in one round: every query succeeds, or one fails
ClusterAnswers ==
    { AnswerOK,
      [AnswerOK EXCEPT !.Version = [Err |-> TRUE, GitVersion |-> "", Platform |-> ""]],
      [AnswerOK EXCEPT !.Nodes = [Err |-> TRUE, Items |-> <<>>]],
      [AnswerOK EXCEPT !.ClusterCIDR = [Err |-> TRUE, CIDR |-> ""]],
      [AnswerOK EXCEPT !.ServiceCIDR = [Err |-> TRUE, CIDR |-> ""]],
      [AnswerOK EXCEPT !.StatusCode = [healthz |-> 200, livez |-> 200, readyz |-> 503]] }

\* getNodeCondition: the index (from 0) and the first condition of the type, or -1
getNodeCondition(nodeStatus, conditionType) ==
    LET found == { k \in 1..Len(nodeStatus.Conditions) :
                     nodeStatus.Conditions[k].Type = conditionType }
    IN IF found = {}
       THEN [flag |-> -1, condition |-> [Type |-> "", Status |-> ""]]
       ELSE LET first == CHOOSE k \in found : \A m \in found : k <= m
            IN [flag |-> first - 1, condition |-> nodeStatus.Conditions[first]]

ZeroNodeStatistics == [ReadyNodes |-> 0, NotReadyNodes |-> 0, UnknownNodes |-> 0, LostNodes |-> 0]

\* getNodeStatistics: the loop over the nodes, from node k on
RECURSIVE NodeStatisticsFrom(_, _, _)
NodeStatisticsFrom(nodes, k, nodeStatistics) ==
    IF k > Len(nodes)
    THEN nodeStatistics
    ELSE LET found == getNodeCondition(nodes[k].Status, "Ready")
             counted ==
                 IF found.flag = -1
                 THEN [nodeStatistics EXCEPT !.LostNodes = @ + 1]
                 ELSE IF found.condition.Status = "True"
                 THEN [nodeStatistics EXCEPT !.ReadyNodes = @ + 1]
                 ELSE IF found.condition.Status = "False"
                 THEN [nodeStatistics EXCEPT !.NotReadyNodes = @ + 1]
                 ELSE IF found.condition.Status = "Unknown"
                 THEN [nodeStatistics EXCEPT !.UnknownNodes = @ + 1]
                 ELSE nodeStatistics
         IN NodeStatisticsFrom(nodes, k + 1, counted)

getNodeStatistics(nodes) == NodeStatisticsFrom(nodes, 1, ZeroNodeStatistics)

\* the sum of one resource of one ResourceList over the nodes, from node k on
RECURSIVE SumFrom(_, _, _, _)
SumFrom(nodes, k, list, name) ==
    IF k > Len(nodes) THEN 0
    ELSE nodes[k].Status[list][name] + SumFrom(nodes, k + 1, list, name)

\* getNodeResource: capacity and allocatable cpu and memory of the nodes
getNodeResource(nodes) ==
    [Capacity |-> ResourceList(SumFrom(nodes, 1, "Capacity", "cpu"),
                               SumFrom(nodes, 1, "Capacity", "memory")),
     Allocatable |-> ResourceList(SumFrom(nodes, 1, "Allocatable", "cpu"),
                                  SumFrom(nodes, 1, "Allocatable", "memory"))]

\* getHealthStatus: whether the path answered with http.StatusOK
getHealthStatus(answer, path) == answer.StatusCode[path] = StatusOK

\* the zero value of clusterapi.ManagedClusterStatus
ZeroStatus ==
    [KubernetesVersion |-> "", Platform |-> "", APIServerURL |-> "",
     Healthz |-> FALSE, Livez |-> FALSE, Readyz |-> FALSE,
     AppPusher |-> FALSE, UseSocket |-> FALSE, ParentAPIServerURL |-> "",
     ClusterCIDR |-> "", ServiceCIDR |-> "",
     NodeStatistics |-> ZeroNodeStatistics,
     Allocatable |-> EmptyMap, Capacity |-> EmptyMap,
     LastObservedTime |-> ZeroTime]

\* the status collectingClusterStatus builds from the answers of one round
StatusOf(answer) ==
    LET nodes == answer.Nodes.Items
        nodeResource == getNodeResource(nodes)
    IN [ZeroStatus EXCEPT
          !.KubernetesVersion = answer.Version.GitVersion,
          !.Platform = answer.Version.Platform,
          !.APIServerURL = Config.apiserverURL,
          !.Healthz = getHealthStatus(answer, "healthz"),
          !.Livez = getHealthStatus(answer, "livez"),
          !.Readyz = getHealthStatus(answer, "readyz"),
          !.AppPusher = Config.appPusherEnabled,
          !.UseSocket = Config.useSocket,
          !.ParentAPIServerURL = Config.parentAPIServer,
          !.ClusterCIDR = answer.ClusterCIDR.CIDR,
          !.ServiceCIDR = answer.ServiceCIDR.CIDR,
          !.NodeStatistics = getNodeStatistics(nodes),
          !.Allocatable = nodeResource.Allocatable,
          !.Capacity = nodeResource.Capacity]

\* the heap of status objects: Go frees what no pointer reaches, and the model
\* gives a new object the lowest free address
NewAddr(h) ==
    CHOOSE a \in 1..(Cardinality(DOMAIN h) + 1) :
        a \notin DOMAIN h /\ \A b \in 1..(a - 1) : b \in DOMAIN h

Reachable(h, pointers) == [a \in (DOMAIN h) \cap pointers |-> h[a]]

\* ManagedClusterStatus.DeepCopy: a new object at address b with the content
\* of the object at address a, sharing nothing with it
DeepCopy(h, a, b) == MapSet(h, b, h[a])

(* ------------------------------------------------------------------ *)
(* The cluster status controller: state                                *)
(* ------------------------------------------------------------------ *)

VARIABLES
    ctxDone,                \* the context of Run is cancelled
    podListerSynced,        \* the pod informer has synced
    nodeListerSynced,       \* the node informer has synced
    cpc,                    \* where the goroutine of Run stands
    status,                 \* collectingClusterStatus: the status it has built
    rounds,                 \* the collection rounds started; the clock reads it
    lock,                   \* c.lock: "free" or its holder
    clusterStatus,          \* c.clusterStatus: Nil or the address of a status
    heap,                   \* address -> status object
    rpc,                    \* where each caller of GetClusterStatus stands
    ret,                    \* what GetClusterStatus returned to each caller
    calls,                  \* the calls of GetClusterStatus each caller made
    stored                  \* the statuses the returned calls of setClusterStatus stored

ctrlVars == <<ctxDone, podListerSynced, nodeListerSynced, cpc, status, rounds, lock,
              clusterStatus, heap, rpc, ret, calls, stored>>

\* a call of getNodeStatistics: its argument, its result, and whether it has returned
VARIABLES
    nodes,
    nodeStatistics,
    npc

statVars == <<nodes, nodeStatistics, npc>>

vars == <<installVars, ctrlVars, statVars>>

\* no call of getNodeStatistics on its own
StatisticsStart ==
    /\ nodes = <<>>
    /\ nodeStatistics = ZeroNodeStatistics
    /\ npc = "idle"

\* the controller NewController returns, before Run
ControllerStart ==
    /\ ctxDone = FALSE
    /\ podListerSynced = FALSE
    /\ nodeListerSynced = FALSE
    /\ cpc = "Run"
    /\ status = ZeroStatus
    /\ rounds = 0
    /\ lock = "free"
    /\ clusterStatus = Nil
    /\ heap = EmptyMap
    /\ rpc = [r \in Readers |-> "idle"]
    /\ ret = [r \in Readers |-> Nil]
    /\ calls = [r \in Readers |-> 0]
    /\ stored = <<>>

\* no earlier run of the installation
NoRun == [done |-> FALSE, result |-> "none", routes |-> {}, discoveryGroups |-> <<>>]

\* the state of the process before any installation
ProcessStart ==
    /\ result = "none"
    /\ apiGroupResources = <<>>
    /\ gi = 1
    /\ ri = 1
    /\ Scheme = SchemeAtStart
    /\ shadowv1alpha1storage = EmptyMap
    /\ i = 1
    /\ j = 1
    /\ resourceInfos = {}
    /\ routes = {}
    /\ groupHandlers = <<>>
    /\ discoveryGroups = <<>>
    /\ storageVersions = {}
    /\ featureGates \in FeatureGates
    /\ firstRun = NoRun

Init ==
    /\ ProcessStart
    /\ ControllerStart
    /\ StatisticsStart
    /\ pc = "InstallShadowAPIGroups"
    /\ cl \in DiscoveryAnswers
    /\ apiGroupInfos = <<>>

(* ------------------------------------------------------------------ *)
(* InstallShadowAPIGroups                                              *)
(* ------------------------------------------------------------------ *)

\* GetAPIGroupResources whose error is reported only after the gathered groups
\* were scanned and installed
GetAPIGroupResourcesLateError ==
    /\ pc = "InstallShadowAPIGroups"
    /\ apiGroupResources' = cl.Groups
    /\ pc' = "scan"
    /\ result' = IF cl.Err THEN ErrDiscovery ELSE result
    /\ UNCHANGED <<cl, gi, ri, Scheme, shadowv1alpha1storage, apiGroupInfos, i, j,
                   resourceInfos, serverVars, featureGates, firstRun, ctrlVars, statVars>>

\* restmapper.GetAPIGroupResources(cl): on an error InstallShadowAPIGroups returns it
GetAPIGroupResources ==
    /\ pc = "InstallShadowAPIGroups"
    /\ IF cl.Err
       THEN /\ pc' = "done"
            /\ result' = ErrDiscovery
            /\ UNCHANGED apiGroupResources
       ELSE /\ apiGroupResources' = cl.Groups
            /\ pc' = "scan"
            /\ UNCHANGED result
    /\ UNCHANGED <<cl, gi, ri, Scheme, shadowv1alpha1storage, apiGroupInfos, i, j,
                   resourceInfos, serverVars, featureGates, firstRun, ctrlVars, statVars>>

\* Excluded without the rule for the shadow group itself
ExcludedBySuffixOnly(groupName) ==
    HasSuffix(groupName, clusternetGroupSuffix)

\* the two rules that skip a discovered group
Excluded(groupName) ==
    \/ HasSuffix(groupName, clusternetGroupSuffix)
    \/ groupName = GroupName

Scanning == pc = "scan" /\ gi <= Len(apiGroupResources)

\* the continue statements of the scan loop
SkipGroup ==
    /\ Scanning
    /\ Excluded(apiGroupResources[gi].Group.Name)
    /\ gi' = gi + 1
    /\ ri' = 1
    /\ UNCHANGED <<pc, result, cl, apiGroupResources, Scheme, shadowv1alpha1storage,
                   apiGroupInfos, i, j, resourceInfos, serverVars, featureGates, firstRun, ctrlVars, statVars>>

\* NewREST that makes every adapter namespace-scoped
NewRESTAlwaysNamespaced(apiresource, group, version) ==
    [Name |-> apiresource.Name,
     Kind |-> apiresource.Kind,
     Group |-> group,
     Version |-> version,
     Namespaced |-> TRUE,
     ShortNames |-> apiresource.ShortNames]

\* template.NewREST and its setters
NewREST(apiresource, group, version) ==
    [Name |-> apiresource.Name,
     Kind |-> apiresource.Kind,
     Group |-> group,
     Version |-> version,
     Namespaced |-> apiresource.Namespaced,
     ShortNames |-> apiresource.ShortNames]

\* MirrorResource that builds the adapter without registering the original GVK
MirrorResourceWithoutRegistration ==
    /\ Scanning
    /\ ~Excluded(apiGroupResources[gi].Group.Name)
    /\ LET apiGroupResource == apiGroupResources[gi]
           preferredVersion == apiGroupResource.Group.PreferredVersion.Version
           resources == ResourcesOf(apiGroupResource, preferredVersion)
       IN /\ ri <= Len(resources)
          /\ LET apiresource == resources[ri]
             IN /\ shadowv1alpha1storage' =
                       MapSet(shadowv1alpha1storage, apiresource.Name,
                              NewREST(apiresource, apiGroupResource.Group.Name, preferredVersion))
                /\ ri' = ri + 1
                /\ UNCHANGED <<pc, result, Scheme>>
    /\ UNCHANGED <<cl, apiGroupResources, gi, apiGroupInfos, i, j, resourceInfos,
                   serverVars, featureGates, firstRun, ctrlVars, statVars>>

\* MirrorResource that registers over a type the Scheme already holds for the GVK
MirrorResourceOverwriting ==
    /\ Scanning
    /\ ~Excluded(apiGroupResources[gi].Group.Name)
    /\ LET apiGroupResource == apiGroupResources[gi]
           preferredVersion == apiGroupResource.Group.PreferredVersion.Version
           resources == ResourcesOf(apiGroupResource, preferredVersion)
       IN /\ ri <= Len(resources)
          /\ LET apiresource == resources[ri]
                 gvk == GVK(apiGroupResource.Group.Name, preferredVersion, apiresource.Kind)
             IN /\ Scheme' = MapSet(Scheme, gvk, "unstructured")
                /\ shadowv1alpha1storage' =
                       MapSet(shadowv1alpha1storage, apiresource.Name,
                              NewREST(apiresource, apiGroupResource.Group.Name, preferredVersion))
                /\ ri' = ri + 1
                /\ UNCHANGED <<pc, result>>
    /\ UNCHANGED <<cl, apiGroupResources, gi, apiGroupInfos, i, j, resourceInfos,
                   serverVars, featureGates, firstRun, ctrlVars, statVars>>

\* one turn of the inner loop: register the original GVK, build the adapter, store it
MirrorResource ==
    /\ Scanning
    /\ ~Excluded(apiGroupResources[gi].Group.Name)
    /\ LET apiGroupResource == apiGroupResources[gi]
           preferredVersion == apiGroupResource.Group.PreferredVersion.Version
           resources == ResourcesOf(apiGroupResource, preferredVersion)
       IN /\ ri <= Len(resources)
          /\ LET apiresource == resources[ri]
                 gvk == GVK(apiGroupResource.Group.Name, preferredVersion, apiresource.Kind)
             IN IF AddKnownTypePanics(Scheme, gvk, "unstructured")
                THEN /\ pc' = "done"
                     /\ result' = "panic"
                     /\ UNCHANGED <<Scheme, shadowv1alpha1storage, ri>>
                ELSE /\ Scheme' = MapSet(Scheme, gvk, "unstructured")
                     /\ shadowv1alpha1storage' =
                            MapSet(shadowv1alpha1storage, apiresource.Name,
                                   NewREST(apiresource, apiGroupResource.Group.Name, preferredVersion))
                     /\ ri' = ri + 1
                     /\ UNCHANGED <<pc, result>>
    /\ UNCHANGED <<cl, apiGroupResources, gi, apiGroupInfos, i, j, resourceInfos,
                   serverVars, featureGates, firstRun, ctrlVars, statVars>>

\* the inner loop is over: on to the next discovered group
NextGroup ==
    /\ Scanning
    /\ ~Excluded(apiGroupResources[gi].Group.Name)
    /\ LET apiGroupResource == apiGroupResources[gi]
           preferredVersion == apiGroupResource.Group.PreferredVersion.Version
       IN ri > Len(ResourcesOf(apiGroupResource, preferredVersion))
    /\ gi' = gi + 1
    /\ ri' = 1
    /\ UNCHANGED <<pc, result, cl, apiGroupResources, Scheme, shadowv1alpha1storage,
                   apiGroupInfos, i, j, resourceInfos, serverVars, featureGates, firstRun, ctrlVars, statVars>>

\* genericapiserver.NewDefaultAPIGroupInfo with the one version and its storage
ShadowAPIGroupInfo(storage) ==
    [PrioritizedVersions |-> << [Group |-> GroupName, Version |-> V1alpha1] >>,
     VersionedResourcesStorageMap |-> (V1alpha1 :> storage)]

\* the scan is over: assemble the shadow group and call installAPIGroups
AssembleShadowGroup ==
    /\ pc = "scan"
    /\ gi > Len(apiGroupResources)
    /\ apiGroupInfos' = << ShadowAPIGroupInfo(shadowv1alpha1storage) >>
    /\ pc' = "validate"
    /\ i' = 1
    /\ UNCHANGED <<result, cl, scanVars, Scheme, j, resourceInfos, serverVars, featureGates, firstRun, ctrlVars, statVars>>

(* ------------------------------------------------------------------ *)
(* installAPIGroups                                                    *)
(* ------------------------------------------------------------------ *)

\* one turn of the first loop: the two checks on PrioritizedVersions[0].
\* Indexing an empty PrioritizedVersions is a run-time panic.
ValidateGroup ==
    /\ pc = "validate"
    /\ i <= Len(apiGroupInfos)
    /\ LET apiGroupInfo == apiGroupInfos[i]
       IN IF Len(apiGroupInfo.PrioritizedVersions) = 0
          THEN /\ pc' = "done"
               /\ result' = "panic"
               /\ UNCHANGED i
          ELSE IF Len(apiGroupInfo.PrioritizedVersions[1].Group) = 0
          THEN /\ pc' = "done"
               /\ result' = ErrEmptyGroup
               /\ UNCHANGED i
          ELSE IF Len(apiGroupInfo.PrioritizedVersions[1].Version) = 0
          THEN /\ pc' = "done"
               /\ result' = ErrEmptyVersion
               /\ UNCHANGED i
          ELSE /\ i' = i + 1
               /\ UNCHANGED <<pc, result>>
    /\ UNCHANGED <<cl, scanVars, Scheme, apiGroupInfos, j, resourceInfos, serverVars,
                   featureGates, firstRun, ctrlVars, statVars>>

\* the first loop is over: the second loop starts at the first group
StartInstall ==
    /\ pc = "validate"
    /\ i > Len(apiGroupInfos)
    /\ pc' = "installAPIResources"
    /\ i' = 1
    /\ j' = 1
    /\ resourceInfos' = {}
    /\ UNCHANGED <<result, cl, scanVars, Scheme, apiGroupInfos, serverVars, featureGates, firstRun, ctrlVars, statVars>>

\* the storages over the lower-cased keys: each key holds the adapter of one of
\* the names of src that lower-case to it
RECURSIVE StoragesOver(_, _)
StoragesOver(src, keys) ==
    IF keys = {}
    THEN {EmptyMap}
    ELSE LET key == CHOOSE k \in keys : TRUE
         IN { MapSet(storage, key, src[k]) :
                storage \in StoragesOver(src, keys \ {key}),
                k \in { n \in DOMAIN src : ToLower(n) = key } }

\* LowerCasedStorages that keeps the keys as they are
LowerCasedStoragesKeepingCase(src) == {src}

\* getAPIGroupVersion: the storage of one version under lower-cased keys. Go ranges
\* over the map in no fixed order, so of the names that share a lower-cased key
\* any one may be the last written.
LowerCasedStorages(src) == StoragesOver(src, { ToLower(k) : k \in DOMAIN src })

\* the resource infos InstallREST returns for a published version
ResourceInfosOf(groupVersion, storage) ==
    { [GroupVersion |-> groupVersion, Resource |-> key] : key \in DOMAIN storage }

\* the route table InstallREST publishes for version j of group i
Route(idx, apiPrefix, groupVersion, storage) ==
    [Index |-> idx, Root |-> apiPrefix, GroupVersion |-> groupVersion, Storage |-> storage]

\* InstallVersion that withdraws the routes published so far when InstallREST fails
InstallVersionRollback ==
    /\ pc = "installAPIResources"
    /\ i <= Len(apiGroupInfos)
    /\ j <= Len(apiGroupInfos[i].PrioritizedVersions)
    /\ LET apiGroupInfo == apiGroupInfos[i]
           groupVersion == apiGroupInfo.PrioritizedVersions[j]
           src == StorageMapOf(apiGroupInfo, groupVersion.Version)
       IN IF MapLen(src) = 0
          THEN /\ j' = j + 1
               /\ UNCHANGED <<pc, result, resourceInfos, routes>>
          ELSE \E ok \in BOOLEAN, storage \in LowerCasedStorages(src) :
                 IF ok
                 THEN /\ routes' = routes \cup {Route(i, APIGroupPrefix, groupVersion, storage)}
                      /\ resourceInfos' = resourceInfos \cup ResourceInfosOf(groupVersion, storage)
                      /\ j' = j + 1
                      /\ UNCHANGED <<pc, result>>
                 ELSE /\ pc' = "done"
                      /\ result' = ErrInstall
                      /\ routes' = {}
                      /\ UNCHANGED <<j, resourceInfos>>
    /\ UNCHANGED <<cl, scanVars, Scheme, apiGroupInfos, i, groupHandlers, discoveryGroups,
                   storageVersions, featureGates, firstRun, ctrlVars, statVars>>

\* InstallVersion that drops the error of InstallREST and goes on to the next version
InstallVersionIgnoringError ==
    /\ pc = "installAPIResources"
    /\ i <= Len(apiGroupInfos)
    /\ j <= Len(apiGroupInfos[i].PrioritizedVersions)
    /\ LET apiGroupInfo == apiGroupInfos[i]
           groupVersion == apiGroupInfo.PrioritizedVersions[j]
           src == StorageMapOf(apiGroupInfo, groupVersion.Version)
       IN IF MapLen(src) = 0
          THEN /\ j' = j + 1
               /\ UNCHANGED <<resourceInfos, routes>>
          ELSE \E ok \in BOOLEAN, storage \in LowerCasedStorages(src) :
                 IF ok
                 THEN /\ routes' = routes \cup {Route(i, APIGroupPrefix, groupVersion, storage)}
                      /\ resourceInfos' = resourceInfos \cup ResourceInfosOf(groupVersion, storage)
                      /\ j' = j + 1
                 ELSE /\ j' = j + 1
                      /\ UNCHANGED <<resourceInfos, routes>>
    /\ UNCHANGED <<pc, result, cl, scanVars, Scheme, apiGroupInfos, i, groupHandlers,
                   discoveryGroups, storageVersions, featureGates, firstRun, ctrlVars, statVars>>

\* InstallVersion that registers the resource infos of each version as it publishes it
InstallVersionRecordingEarly ==
    /\ pc = "installAPIResources"
    /\ i <= Len(apiGroupInfos)
    /\ j <= Len(apiGroupInfos[i].PrioritizedVersions)
    /\ LET apiGroupInfo == apiGroupInfos[i]
           groupVersion == apiGroupInfo.PrioritizedVersions[j]
           src == StorageMapOf(apiGroupInfo, groupVersion.Version)
       IN IF MapLen(src) = 0
          THEN /\ j' = j + 1
               /\ UNCHANGED <<pc, result, resourceInfos, routes, storageVersions>>
          ELSE \E ok \in BOOLEAN, storage \in LowerCasedStorages(src) :
                 IF ok
                 THEN /\ routes' = routes \cup {Route(i, APIGroupPrefix, groupVersion, storage)}
                      /\ resourceInfos' = resourceInfos \cup ResourceInfosOf(groupVersion, storage)
                      /\ storageVersions' =
                            IF featureGates.StorageVersionAPI /\ featureGates.APIServerIdentity
                            THEN storageVersions \cup ResourceInfosOf(groupVersion, storage)
                            ELSE storageVersions
                      /\ j' = j + 1
                      /\ UNCHANGED <<pc, result>>
                 ELSE /\ pc' = "done"
                      /\ result' = ErrInstall
                      /\ UNCHANGED <<j, resourceInfos, routes, storageVersions>>
    /\ UNCHANGED <<cl, scanVars, Scheme, apiGroupInfos, i, groupHandlers, discoveryGroups,
                   featureGates, firstRun, ctrlVars, statVars>>

\* InstallVersion that returns an error for a version without resources
InstallVersionFailingOnEmpty ==
    /\ pc = "installAPIResources"
    /\ i <= Len(apiGroupInfos)
    /\ j <= Len(apiGroupInfos[i].PrioritizedVersions)
    /\ LET apiGroupInfo == apiGroupInfos[i]
           groupVersion == apiGroupInfo.PrioritizedVersions[j]
           src == StorageMapOf(apiGroupInfo, groupVersion.Version)
       IN IF MapLen(src) = 0
          THEN /\ pc' = "done"
               /\ result' = ErrInstall
               /\ UNCHANGED <<j, resourceInfos, routes>>
          ELSE \E ok \in BOOLEAN, storage \in LowerCasedStorages(src) :
                 IF ok
                 THEN /\ routes' = routes \cup {Route(i, APIGroupPrefix, groupVersion, storage)}
                      /\ resourceInfos' = resourceInfos \cup ResourceInfosOf(groupVersion, storage)
                      /\ j' = j + 1
                      /\ UNCHANGED <<pc, result>>
                 ELSE /\ pc' = "done"
                      /\ result' = ErrInstall
                      /\ UNCHANGED <<j, resourceInfos, routes>>
    /\ UNCHANGED <<cl, scanVars, Scheme, apiGroupInfos, i, groupHandlers, discoveryGroups,
                   storageVersions, featureGates, firstRun, ctrlVars, statVars>>

\* one turn of the loop of installAPIResources: a version without resources is
\* skipped, any other is published by InstallREST, which may fail
InstallVersion ==
    /\ pc = "installAPIResources"
    /\ i <= Len(apiGroupInfos)
    /\ j <= Len(apiGroupInfos[i].PrioritizedVersions)
    /\ LET apiGroupInfo == apiGroupInfos[i]
           groupVersion == apiGroupInfo.PrioritizedVersions[j]
           src == StorageMapOf(apiGroupInfo, groupVersion.Version)
       IN IF MapLen(src) = 0
          THEN /\ j' = j + 1
               /\ UNCHANGED <<pc, result, resourceInfos, routes>>
          ELSE \E ok \in BOOLEAN, storage \in LowerCasedStorages(src) :
                 IF ok
                 THEN /\ routes' = routes \cup {Route(i, APIGroupPrefix, groupVersion, storage)}
                      /\ resourceInfos' = resourceInfos \cup ResourceInfosOf(groupVersion, storage)
                      /\ j' = j + 1
                      /\ UNCHANGED <<pc, result>>
                 ELSE /\ pc' = "done"
                      /\ result' = ErrInstall
                      /\ UNCHANGED <<j, resourceInfos, routes>>
    /\ UNCHANGED <<cl, scanVars, Scheme, apiGroupInfos, i, groupHandlers, discoveryGroups,
                   storageVersions, featureGates, firstRun, ctrlVars, statVars>>

\* RecordStorageVersions that registers the resource infos when either feature gate is on
RecordStorageVersionsEitherGate ==
    /\ pc = "installAPIResources"
    /\ i <= Len(apiGroupInfos)
    /\ j > Len(apiGroupInfos[i].PrioritizedVersions)
    /\ storageVersions' =
          IF featureGates.StorageVersionAPI \/ featureGates.APIServerIdentity
          THEN storageVersions \cup resourceInfos
          ELSE storageVersions
    /\ pc' = "discovery"
    /\ UNCHANGED <<result, cl, scanVars, Scheme, apiGroupInfos, i, j, resourceInfos, routes,
                   groupHandlers, discoveryGroups, featureGates, firstRun, ctrlVars, statVars>>

\* the end of installAPIResources: the resource infos are registered when both
\* feature gates are on
RecordStorageVersions ==
    /\ pc = "installAPIResources"
    /\ i <= Len(apiGroupInfos)
    /\ j > Len(apiGroupInfos[i].PrioritizedVersions)
    /\ storageVersions' =
          IF featureGates.StorageVersionAPI /\ featureGates.APIServerIdentity
          THEN storageVersions \cup resourceInfos
          ELSE storageVersions
    /\ pc' = "discovery"
    /\ UNCHANGED <<result, cl, scanVars, Scheme, apiGroupInfos, i, j, resourceInfos, routes,
                   groupHandlers, discoveryGroups, featureGates, firstRun, ctrlVars, statVars>>

\* metav1.GroupVersionForDiscovery of a group version
ForDiscovery(groupVersion) ==
    [GroupVersion |-> GroupVersionString(groupVersion), Version |-> groupVersion.Version]

\* VersionsForDiscovery without the check that elides the versions without resources
RECURSIVE VersionsForDiscoveryNoElision(_, _)
VersionsForDiscoveryNoElision(apiGroupInfo, k) ==
    IF k > Len(apiGroupInfo.PrioritizedVersions)
    THEN <<>>
    ELSE <<ForDiscovery(apiGroupInfo.PrioritizedVersions[k])>>
            \o VersionsForDiscoveryNoElision(apiGroupInfo, k + 1)

\* the loop over PrioritizedVersions that elides the versions without resources
RECURSIVE VersionsForDiscovery(_, _)
VersionsForDiscovery(apiGroupInfo, k) ==
    IF k > Len(apiGroupInfo.PrioritizedVersions)
    THEN <<>>
    ELSE LET groupVersion == apiGroupInfo.PrioritizedVersions[k]
             rest == VersionsForDiscovery(apiGroupInfo, k + 1)
         IN IF MapLen(StorageMapOf(apiGroupInfo, groupVersion.Version)) = 0
            THEN rest
            ELSE <<ForDiscovery(groupVersion)>> \o rest

\* the metav1.APIGroup built for a group
APIGroupOf(apiGroupInfo) ==
    [Name |-> apiGroupInfo.PrioritizedVersions[1].Group,
     Versions |-> VersionsForDiscovery(apiGroupInfo, 1),
     PreferredVersion |-> ForDiscovery(apiGroupInfo.PrioritizedVersions[1])]

\* AddGroup that puts the new group in the place of the groups added before
AddGroupOverwriting ==
    /\ pc = "discovery"
    /\ LET apiGroup == APIGroupOf(apiGroupInfos[i])
       IN /\ discoveryGroups' = << [Index |-> i, APIGroup |-> apiGroup] >>
          /\ groupHandlers' = Append(groupHandlers, [Index |-> i, APIGroup |-> apiGroup])
    /\ pc' = "installAPIResources"
    /\ i' = i + 1
    /\ j' = 1
    /\ resourceInfos' = {}
    /\ UNCHANGED <<result, cl, scanVars, Scheme, apiGroupInfos, routes, storageVersions,
                   featureGates, firstRun, ctrlVars, statVars>>

\* the rest of one turn of the second loop: the group is added to the
\* DiscoveryGroupManager and its handler to the container
AddGroup ==
    /\ pc = "discovery"
    /\ LET apiGroup == APIGroupOf(apiGroupInfos[i])
       IN /\ discoveryGroups' = Append(discoveryGroups, [Index |-> i, APIGroup |-> apiGroup])
          /\ groupHandlers' = Append(groupHandlers, [Index |-> i, APIGroup |-> apiGroup])
    /\ pc' = "installAPIResources"
    /\ i' = i + 1
    /\ j' = 1
    /\ resourceInfos' = {}
    /\ UNCHANGED <<result, cl, scanVars, Scheme, apiGroupInfos, routes, storageVersions,
                   featureGates, firstRun, ctrlVars, statVars>>

\* the second loop is over: installAPIGroups returns nil
ReturnNil ==
    /\ pc = "installAPIResources"
    /\ i > Len(apiGroupInfos)
    /\ pc' = "done"
    /\ result' = "nil"
    /\ UNCHANGED <<cl, scanVars, Scheme, apiGroupInfos, i, j, resourceInfos, serverVars,
                   featureGates, firstRun, ctrlVars, statVars>>

(* ------------------------------------------------------------------ *)
(* The cluster status controller: Run, collectingClusterStatus,        *)
(* setClusterStatus, GetClusterStatus                                  *)
(* ------------------------------------------------------------------ *)

\* a panic in the goroutine of Run ends the process
Running == cpc # "panic"

\* what the pointers of the program reach
Pointers(cs, rt) == ({cs} \cup { rt[r] : r \in Readers }) \ {Nil}

\* the informers finish their first list
PodListerSyncs ==
    /\ Running
    /\ ~podListerSynced
    /\ podListerSynced' = TRUE
    /\ UNCHANGED <<installVars, statVars, ctxDone, nodeListerSynced, cpc, status, rounds, lock,
                   clusterStatus, heap, rpc, ret, calls, stored>>

NodeListerSyncs ==
    /\ Running
    /\ ~nodeListerSynced
    /\ nodeListerSynced' = TRUE
    /\ UNCHANGED <<installVars, statVars, ctxDone, podListerSynced, cpc, status, rounds, lock,
                   clusterStatus, heap, rpc, ret, calls, stored>>

\* the context of Run is cancelled
Cancel ==
    /\ Running
    /\ ~ctxDone
    /\ ctxDone' = TRUE
    /\ UNCHANGED <<installVars, statVars, podListerSynced, nodeListerSynced, cpc, status, rounds, lock,
                   clusterStatus, heap, rpc, ret, calls, stored>>

\* WaitForNamedCacheSync returns true: Run goes on to wait.UntilWithContext
CachesSynced ==
    /\ cpc = "Run"
    /\ podListerSynced /\ nodeListerSynced
    /\ cpc' = "UntilWithContext"
    /\ UNCHANGED <<installVars, statVars, ctxDone, podListerSynced, nodeListerSynced, status, rounds,
                   lock, clusterStatus, heap, rpc, ret, calls, stored>>

\* WaitForNamedCacheSync returns false: Run returns
SyncStopped ==
    /\ cpc = "Run"
    /\ ctxDone
    /\ cpc' = "returned"
    /\ UNCHANGED <<installVars, statVars, ctxDone, podListerSynced, nodeListerSynced, status, rounds,
                   lock, clusterStatus, heap, rpc, ret, calls, stored>>

\* wait.UntilWithContext finds the context done, before a round or after one
UntilStopped ==
    /\ cpc = "UntilWithContext"
    /\ ctxDone
    /\ cpc' = "returned"
    /\ UNCHANGED <<installVars, statVars, ctxDone, podListerSynced, nodeListerSynced, status, rounds,
                   lock, clusterStatus, heap, rpc, ret, calls, stored>>

\* collectingClusterStatus up to the call of setClusterStatus: the queries are
\* made and the status is built; clusterVersion is nil when its query failed,
\* and reading its field panics
CollectingClusterStatus ==
    /\ cpc = "UntilWithContext"
    /\ ~ctxDone
    /\ rounds < MaxRounds
    /\ rounds' = rounds + 1
    /\ \E answer \in ClusterAnswers :
          IF answer.Version.Err
          THEN /\ cpc' = "panic"
               /\ UNCHANGED status
          ELSE /\ status' = StatusOf(answer)
               /\ cpc' = "setClusterStatus"
    /\ UNCHANGED <<installVars, statVars, ctxDone, podListerSynced, nodeListerSynced, lock,
                   clusterStatus, heap, rpc, ret, calls, stored>>

\* setClusterStatus that does not wait for the lock
SetClusterStatusLockNotWaiting ==
    /\ cpc = "setClusterStatus"
    /\ lock' = "collector"
    /\ cpc' = "locked"
    /\ UNCHANGED <<installVars, statVars, ctxDone, podListerSynced, nodeListerSynced, status, rounds,
                   clusterStatus, heap, rpc, ret, calls, stored>>

\* setClusterStatus: c.lock.Lock()
SetClusterStatusLock ==
    /\ cpc = "setClusterStatus"
    /\ lock = "free"
    /\ lock' = "collector"
    /\ cpc' = "locked"
    /\ UNCHANGED <<installVars, statVars, ctxDone, podListerSynced, nodeListerSynced, status, rounds,
                   clusterStatus, heap, rpc, ret, calls, stored>>

\* setClusterStatus: a nil c.clusterStatus is given a new zero status
SetClusterStatusNew ==
    /\ cpc = "locked"
    /\ IF clusterStatus = Nil
       THEN /\ clusterStatus' = NewAddr(heap)
            /\ heap' = MapSet(heap, NewAddr(heap), ZeroStatus)
       ELSE UNCHANGED <<clusterStatus, heap>>
    /\ cpc' = "assign"
    /\ UNCHANGED <<installVars, statVars, ctxDone, podListerSynced, nodeListerSynced, status, rounds,
                   lock, rpc, ret, calls, stored>>

\* setClusterStatus: c.clusterStatus = &status
SetClusterStatusAssign ==
    /\ cpc = "assign"
    /\ LET a == NewAddr(heap)
       IN /\ clusterStatus' = a
          /\ heap' = Reachable(MapSet(heap, a, status), Pointers(a, ret))
    /\ status' = ZeroStatus
    /\ cpc' = "now"
    /\ UNCHANGED <<installVars, statVars, ctxDone, podListerSynced, nodeListerSynced, rounds, lock,
                   rpc, ret, calls, stored>>

\* setClusterStatus: c.clusterStatus.LastObservedTime = metav1.Now()
SetClusterStatusNow ==
    /\ cpc = "now"
    /\ heap' = [heap EXCEPT ![clusterStatus].LastObservedTime = rounds]
    /\ cpc' = "unlock"
    /\ UNCHANGED <<installVars, statVars, ctxDone, podListerSynced, nodeListerSynced, status, rounds,
                   lock, clusterStatus, rpc, ret, calls, stored>>

\* setClusterStatus: the deferred c.lock.Unlock(); the round is over
SetClusterStatusUnlock ==
    /\ cpc = "unlock"
    /\ lock' = "free"
    /\ stored' = Append(stored, heap[clusterStatus])
    /\ cpc' = "UntilWithContext"
    /\ UNCHANGED <<installVars, statVars, ctxDone, podListerSynced, nodeListerSynced, status, rounds,
                   clusterStatus, heap, rpc, ret, calls>>

\* GetClusterStatus: c.lock.Lock(); the caller lets go of what it got before
GetClusterStatusLock(r) ==
    /\ Running
    /\ rpc[r] \in {"idle", "returned"}
    /\ calls[r] < MaxCalls
    /\ lock = "free"
    /\ lock' = r
    /\ calls' = [calls EXCEPT ![r] = @ + 1]
    /\ rpc' = [rpc EXCEPT ![r] = "locked"]
    /\ ret' = [ret EXCEPT ![r] = Nil]
    /\ heap' = Reachable(heap, Pointers(clusterStatus, ret'))
    /\ UNCHANGED <<installVars, statVars, ctxDone, podListerSynced, nodeListerSynced, cpc, status,
                   rounds, clusterStatus, stored>>

\* GetClusterStatus that returns c.clusterStatus itself
GetClusterStatusReturningPointer(r) ==
    /\ Running
    /\ rpc[r] = "locked"
    /\ ret' = [ret EXCEPT ![r] = clusterStatus]
    /\ rpc' = [rpc EXCEPT ![r] = "unlock"]
    /\ UNCHANGED <<installVars, statVars, ctxDone, podListerSynced, nodeListerSynced, cpc, status,
                   rounds, lock, clusterStatus, heap, calls, stored>>

\* GetClusterStatus: nil for a nil c.clusterStatus, else c.clusterStatus.DeepCopy()
GetClusterStatusCopy(r) ==
    /\ Running
    /\ rpc[r] = "locked"
    /\ IF clusterStatus = Nil
       THEN /\ ret' = [ret EXCEPT ![r] = Nil]
            /\ UNCHANGED heap
       ELSE LET b == NewAddr(heap)
            IN /\ heap' = DeepCopy(heap, clusterStatus, b)
               /\ ret' = [ret EXCEPT ![r] = b]
    /\ rpc' = [rpc EXCEPT ![r] = "unlock"]
    /\ UNCHANGED <<installVars, statVars, ctxDone, podListerSynced, nodeListerSynced, cpc, status,
                   rounds, lock, clusterStatus, calls, stored>>

\* GetClusterStatus: the deferred c.lock.Unlock(); the caller has its value
GetClusterStatusUnlock(r) ==
    /\ Running
    /\ rpc[r] = "unlock"
    /\ lock' = "free"
    /\ rpc' = [rpc EXCEPT ![r] = "returned"]
    /\ UNCHANGED <<installVars, statVars, ctxDone, podListerSynced, nodeListerSynced, cpc, status,
                   rounds, clusterStatus, heap, ret, calls, stored>>

\* what a caller writes into the status it got
Changed(s) == [s EXCEPT !.KubernetesVersion = "changed", !.LastObservedTime = ZeroTime]

\* a caller changes the status GetClusterStatus returned to it
ChangeReturned(r) ==
    /\ Running
    /\ rpc[r] = "returned"
    /\ ret[r] # Nil
    /\ heap[ret[r]] # Changed(heap[ret[r]])
    /\ heap' = [heap EXCEPT ![ret[r]] = Changed(@)]
    /\ UNCHANGED <<installVars, statVars, ctxDone, podListerSynced, nodeListerSynced, cpc, status,
                   rounds, lock, clusterStatus, rpc, ret, calls, stored>>

(* ------------------------------------------------------------------ *)
(* Specifications                                                      *)
(* ------------------------------------------------------------------ *)

InstallAPIGroupsNext ==
    \/ ValidateGroup
    \/ StartInstall
    \/ InstallVersion
    \/ RecordStorageVersions
    \/ AddGroup
    \/ ReturnNil

Next ==
    \/ GetAPIGroupResources
    \/ SkipGroup
    \/ MirrorResource
    \/ NextGroup
    \/ AssembleShadowGroup
    \/ InstallAPIGroupsNext

\* the program: InstallShadowAPIGroups against any downstream discovery answer
Spec == Init /\ [][Next]_vars

\* the storage of one version of a group descriptor handed to installAPIGroups
BatchStorage ==
    (ResPods.Name :> NewREST(ResPods, AppsGroup, V1)) @@
    (ResNodes.Name :> NewREST(ResNodes, AppsGroup, V1))

\* the PrioritizedVersions a group descriptor may hold
BatchPrioritizedVersions ==
    { <<>>,
      << [Group |-> AppsGroup, Version |-> NoString] >>,
      << [Group |-> NoString, Version |-> V1] >>,
      << [Group |-> AppsGroup, Version |-> V1] >>,
      << [Group |-> AppsGroup, Version |-> V1], [Group |-> AppsGroup, Version |-> V2] >> }

\* the VersionedResourcesStorageMap a group descriptor may hold
BatchStorageMaps ==
    { (V1 :> BatchStorage),
      (V1 :> BatchStorage) @@ (V2 :> BatchStorage),
      (V1 :> EmptyMap) @@ (V2 :> BatchStorage) }

BatchAPIGroupInfos ==
    { [PrioritizedVersions |-> pv, VersionedResourcesStorageMap |-> sm] :
        pv \in BatchPrioritizedVersions, sm \in BatchStorageMaps }

InstallAPIGroupsInit ==
    /\ ProcessStart
    /\ ControllerStart
    /\ StatisticsStart
    /\ pc = "validate"
    /\ cl = [Err |-> FALSE, Groups |-> <<>>]
    /\ apiGroupInfos \in SeqsUpTo(BatchAPIGroupInfos, MaxBatch)

\* installAPIGroups called with any batch of group descriptors
InstallAPIGroupsSpec == InstallAPIGroupsInit /\ [][InstallAPIGroupsNext]_vars

ControllerNext ==
    \/ PodListerSyncs
    \/ NodeListerSyncs
    \/ Cancel
    \/ CachesSynced
    \/ SyncStopped
    \/ UntilStopped
    \/ CollectingClusterStatus
    \/ SetClusterStatusLock
    \/ SetClusterStatusNew
    \/ SetClusterStatusAssign
    \/ SetClusterStatusNow
    \/ SetClusterStatusUnlock
    \/ \E r \in Readers : GetClusterStatusLock(r)
    \/ \E r \in Readers : GetClusterStatusCopy(r)
    \/ \E r \in Readers : GetClusterStatusUnlock(r)
    \/ \E r \in Readers : ChangeReturned(r)

ControllerInit ==
    /\ ProcessStart
    /\ ControllerStart
    /\ StatisticsStart
    /\ pc = "InstallShadowAPIGroups"
    /\ cl = [Err |-> FALSE, Groups |-> <<>>]
    /\ apiGroupInfos = <<>>
    /\ featureGates = [StorageVersionAPI |-> FALSE, APIServerIdentity |-> FALSE]

\* the installation is run once more, in a fresh process, against the same
\* discovery answer and the same feature gates; what the first run published
\* is kept for comparison
RunAgain ==
    /\ pc = "done"
    /\ ~firstRun.done
    /\ firstRun' = [done |-> TRUE, result |-> result, routes |-> routes,
                    discoveryGroups |-> discoveryGroups]
    /\ pc' = "InstallShadowAPIGroups"
    /\ result' = "none"
    /\ apiGroupResources' = <<>>
    /\ gi' = 1
    /\ ri' = 1
    /\ Scheme' = SchemeAtStart
    /\ shadowv1alpha1storage' = EmptyMap
    /\ apiGroupInfos' = <<>>
    /\ i' = 1
    /\ j' = 1
    /\ resourceInfos' = {}
    /\ routes' = {}
    /\ groupHandlers' = <<>>
    /\ discoveryGroups' = <<>>
    /\ storageVersions' = {}
    /\ UNCHANGED <<cl, featureGates, ctrlVars, statVars>>

TwoRunsNext ==
    \/ Next
    \/ RunAgain

\* InstallShadowAPIGroups run twice on the same input
TwoRunsSpec == Init /\ [][TwoRunsNext]_vars

\* one call of getNodeStatistics, up to its return
GetNodeStatistics ==
    /\ npc = "getNodeStatistics"
    /\ nodeStatistics' = getNodeStatistics(nodes)
    /\ npc' = "returned"
    /\ UNCHANGED <<installVars, ctrlVars, nodes>>

\* a list of nodes handed to getNodeStatistics
NodeStatisticsInit ==
    /\ ProcessStart
    /\ ControllerStart
    /\ pc = "InstallShadowAPIGroups"
    /\ cl = [Err |-> FALSE, Groups |-> <<>>]
    /\ apiGroupInfos = <<>>
    /\ featureGates = [StorageVersionAPI |-> FALSE, APIServerIdentity |-> FALSE]
    /\ nodes \in SeqsUpTo(Nodes, MaxNodes)
    /\ nodeStatistics = ZeroNodeStatistics
    /\ npc = "getNodeStatistics"

\* getNodeStatistics as a function of its argument
NodeStatisticsSpec == NodeStatisticsInit /\ [][GetNodeStatistics]_vars

\* the cluster status controller: Run in its goroutine, and the callers of
\* GetClusterStatus in theirs
ControllerSpec == ControllerInit /\ [][ControllerNext]_vars

(* ------------------------------------------------------------------ *)
(* InstallShadowAPIGroups: exclusion, completeness, discovery failure  *)
(* ------------------------------------------------------------------ *)

\* a group name that carries the reserved suffix or is the shadow group's own
ReservedOrSelf(name) ==
    \/ (Len(name) >= Len(clusternetGroupSuffix)
        /\ \A k \in 1..Len(clusternetGroupSuffix) :
              name[Len(name) - Len(clusternetGroupSuffix) + k] = clusternetGroupSuffix[k])
    \/ name = GroupName

\* the adapters of the published shadow group
PublishedAdapters == UNION { { r.Storage[k] : k \in DOMAIN r.Storage } : r \in routes }

\* C1: no adapter of a group that carries the reserved suffix or is the shadow
\* group itself is in the shadow group's resource map, assembled or published,
\* and the Scheme holds no type of such a group beyond those it started with.
C1_Exclusion ==
    /\ \A n \in DOMAIN shadowv1alpha1storage : ~ReservedOrSelf(shadowv1alpha1storage[n].Group)
    /\ \A a \in PublishedAdapters : ~ReservedOrSelf(a.Group)
    /\ \A gvk \in DOMAIN Scheme : ReservedOrSelf(gvk.Group) => gvk \in DOMAIN SchemeAtStart

\* an installation that succeeded and published resources although the discovery
\* answer held the shadow group itself or a group with the reserved suffix,
\* with resources under its preferred version
C1_Witness ==
    /\ pc = "done"
    /\ result = "nil"
    /\ routes # {}
    /\ \E g \in 1..Len(apiGroupResources) :
          /\ apiGroupResources[g].Group.Name \in {GroupName, ReservedGroup}
          /\ ResourcesOf(apiGroupResources[g], apiGroupResources[g].Group.PreferredVersion.Version) # <<>>

\* the (group name, resource) pairs of discovered group g under its preferred version
PreferredOf(g) ==
    LET rs == ResourcesOf(apiGroupResources[g], apiGroupResources[g].Group.PreferredVersion.Version)
    IN { <<apiGroupResources[g].Group.Name, rs[n]>> : n \in 1..Len(rs) }

\* the (group name, resource) pairs that survive the exclusion rules
Surviving ==
    UNION { PreferredOf(g) :
              g \in { h \in 1..Len(apiGroupResources) :
                        ~ReservedOrSelf(apiGroupResources[h].Group.Name) } }

\* adapter a was built for resource p[2] of group p[1]
AdapterOf(a, p) == a.Group = p[1] /\ a.Name = p[2].Name

\* C2: after a successful InstallShadowAPIGroups every surviving resource appears
\* exactly once in the published resource map of the shadow group, under its
\* lower-cased name, and the map holds no other key.
C2_Completeness ==
    (pc = "done" /\ result = "nil") =>
        /\ Surviving # {} => routes # {}
        /\ \A r \in routes :
              /\ \A p \in Surviving :
                    /\ ToLower(p[2].Name) \in DOMAIN r.Storage
                    /\ AdapterOf(r.Storage[ToLower(p[2].Name)], p)
                    /\ Cardinality({ k \in DOMAIN r.Storage : AdapterOf(r.Storage[k], p) }) = 1
              /\ \A k \in DOMAIN r.Storage : \E p \in Surviving : ToLower(p[2].Name) = k

\* C3: when the discovery query fails, InstallShadowAPIGroups returns the error
\* and nothing process-wide has changed: no route, no group handler, no entry
\* of the discovery index, no type in the Scheme, no storage-version record.
C3_DiscoveryFailure ==
    cl.Err =>
        /\ pc \in {"InstallShadowAPIGroups", "done"}
        /\ pc = "done" => result = ErrDiscovery
        /\ routes = {}
        /\ groupHandlers = <<>>
        /\ discoveryGroups = <<>>
        /\ storageVersions = {}
        /\ Scheme = SchemeAtStart

\* the installation has returned after a failed discovery query that had
\* gathered a group which is not excluded and lists resources
C3_Witness ==
    /\ cl.Err
    /\ pc = "done"
    /\ \E g \in 1..Len(cl.Groups) :
          /\ ~ReservedOrSelf(cl.Groups[g].Group.Name)
          /\ ResourcesOf(cl.Groups[g], cl.Groups[g].Group.PreferredVersion.Version) # <<>>

(* ------------------------------------------------------------------ *)
(* installAPIGroups: validation, discovery documents, failures         *)
(* ------------------------------------------------------------------ *)

\* a group descriptor the validation is to reject
Malformed(apiGroupInfo) ==
    \/ Len(apiGroupInfo.PrioritizedVersions) = 0
    \/ Len(apiGroupInfo.PrioritizedVersions[1].Group) = 0
    \/ Len(apiGroupInfo.PrioritizedVersions[1].Version) = 0

ValidationErrors == {ErrEmptyGroup, ErrEmptyVersion}

\* C4: installAPIGroups returns a validation error, and does not crash, for any
\* batch holding a descriptor whose PrioritizedVersions is empty or whose
\* PrioritizedVersions[0] has an empty group or an empty version.
C4_ValidationRejects ==
    (pc = "done" /\ \E k \in 1..Len(apiGroupInfos) : Malformed(apiGroupInfos[k]))
        => result \in ValidationErrors

\* a descriptor whose PrioritizedVersions[0] has an empty group or version
EmptyGroupOrVersion(apiGroupInfo) ==
    /\ Len(apiGroupInfo.PrioritizedVersions) > 0
    /\ \/ Len(apiGroupInfo.PrioritizedVersions[1].Group) = 0
       \/ Len(apiGroupInfo.PrioritizedVersions[1].Version) = 0

\* C5: when any descriptor of the batch has an empty group or version in
\* PrioritizedVersions[0], installAPIGroups returns an error and no route is
\* published, no discovery entry appended and no storage version recorded.
C5_ValidationBeforeRoutes ==
    (\E k \in 1..Len(apiGroupInfos) : EmptyGroupOrVersion(apiGroupInfos[k])) =>
        /\ routes = {}
        /\ groupHandlers = <<>>
        /\ discoveryGroups = <<>>
        /\ storageVersions = {}
        /\ pc = "done" => result \in ValidationErrors

\* version gv of the descriptor has at least one resource
HasResources(apiGroupInfo, gv) ==
    /\ gv.Version \in DOMAIN apiGroupInfo.VersionedResourcesStorageMap
    /\ DOMAIN apiGroupInfo.VersionedResourcesStorageMap[gv.Version] # {}

\* C6: the discovery document published for a group mentions no version of
\* PrioritizedVersions that has no resources, neither among its versions nor
\* as its preferred version.
C6_VersionPruning ==
    \A n \in 1..Len(groupHandlers) :
        LET doc == groupHandlers[n].APIGroup
            apiGroupInfo == apiGroupInfos[groupHandlers[n].Index]
        IN \A k \in 1..Len(apiGroupInfo.PrioritizedVersions) :
              ~HasResources(apiGroupInfo, apiGroupInfo.PrioritizedVersions[k]) =>
                  /\ \A m \in 1..Len(doc.Versions) :
                        doc.Versions[m].Version # apiGroupInfo.PrioritizedVersions[k].Version
                  /\ doc.PreferredVersion.Version # apiGroupInfo.PrioritizedVersions[k].Version

\* the versions of PrioritizedVersions that have resources, in their order
VersionsWithResources(apiGroupInfo) ==
    LET Keep(gv) == HasResources(apiGroupInfo, gv)
    IN SelectSeq(apiGroupInfo.PrioritizedVersions, Keep)

\* C7: every entry of the discovery index advertises exactly the versions of
\* PrioritizedVersions that have resources, in the order of PrioritizedVersions;
\* its preferred version is PrioritizedVersions[0] and its name the group of
\* PrioritizedVersions[0]; after a successful call every group has its entry.
C7_DiscoveryEntry ==
    /\ \A n \in 1..Len(discoveryGroups) :
          LET apiGroup == discoveryGroups[n].APIGroup
              apiGroupInfo == apiGroupInfos[discoveryGroups[n].Index]
              kept == VersionsWithResources(apiGroupInfo)
              first == apiGroupInfo.PrioritizedVersions[1]
          IN /\ apiGroup.Name = first.Group
             /\ apiGroup.PreferredVersion.Version = first.Version
             /\ apiGroup.PreferredVersion.GroupVersion = first.Group \o <<"/">> \o first.Version
             /\ Len(apiGroup.Versions) = Len(kept)
             /\ \A m \in 1..Len(kept) : apiGroup.Versions[m].Version = kept[m].Version
    /\ result = "nil" =>
          /\ Len(discoveryGroups) = Len(apiGroupInfos)
          /\ \A n \in 1..Len(discoveryGroups) : discoveryGroups[n].Index = n

\* a successful call that installed a group advertising both of its versions
\* and a group of which one version was elided
C7_Witness ==
    /\ result = "nil"
    /\ \E n \in 1..Len(discoveryGroups) : Len(discoveryGroups[n].APIGroup.Versions) = 2
    /\ \E n \in 1..Len(discoveryGroups) :
          /\ Len(discoveryGroups[n].APIGroup.Versions) = 1
          /\ Len(apiGroupInfos[n].PrioritizedVersions) = 2

\* every version with resources of descriptor k has its route
RoutesPublished(k) ==
    \A m \in 1..Len(apiGroupInfos[k].PrioritizedVersions) :
        HasResources(apiGroupInfos[k], apiGroupInfos[k].PrioritizedVersions[m]) =>
            \E r \in routes :
                r.Index = k /\ r.GroupVersion = apiGroupInfos[k].PrioritizedVersions[m]

\* descriptor k has an entry in the discovery index
Indexed(k) == \E n \in 1..Len(discoveryGroups) : discoveryGroups[n].Index = k

\* C8: when the publication of a version of group i fails, installAPIGroups has
\* returned the error, the groups before i keep their routes and their entries
\* of the discovery index, and the groups after i have no route and no entry.
C8_FailFastNoRollback ==
    result = ErrInstall =>
        /\ pc = "done"
        /\ \A k \in 1..Len(apiGroupInfos) :
              /\ k < i => RoutesPublished(k) /\ Indexed(k)
              /\ k > i => ~Indexed(k) /\ \A r \in routes : r.Index # k

\* the publication failed for the second of three groups, each with resources
C8_Witness ==
    /\ result = ErrInstall
    /\ i = 2
    /\ Len(apiGroupInfos) = 3
    /\ \E r \in routes : r.Index = 1
    /\ VersionsWithResources(apiGroupInfos[3]) # <<>>

\* what holds of the discovery index in every state
C9_IndexState ==
    /\ \A n, m \in 1..Len(discoveryGroups) :
          discoveryGroups[n].Index = discoveryGroups[m].Index => n = m
    /\ \A n \in 1..Len(discoveryGroups) : RoutesPublished(discoveryGroups[n].Index)
    /\ result = ErrInstall => ~Indexed(i)
    /\ result = "nil" => \A k \in 1..Len(apiGroupInfos) : Indexed(k)

\* what holds of every step: the index keeps its entries, and gains at most one
C9_IndexStep ==
    \/ discoveryGroups' = discoveryGroups
    \/ /\ Len(discoveryGroups') = Len(discoveryGroups) + 1
       /\ SubSeq(discoveryGroups', 1, Len(discoveryGroups)) = discoveryGroups

\* C9: the discovery index only grows, by one entry for each group whose
\* versions with resources were all published; a group whose publication
\* failed gets no entry, and an entry is never changed or removed.
C9_DiscoveryIndexMonotonic == []C9_IndexState /\ [][C9_IndexStep]_vars

\* two groups have their entries and the publication of a third one failed
C9_Witness ==
    /\ result = ErrInstall
    /\ Len(discoveryGroups) = 2

\* the group-versions the discovery index advertises, by descriptor
Advertised ==
    UNION { { <<discoveryGroups[n].Index, discoveryGroups[n].APIGroup.Versions[m].GroupVersion>> :
                m \in 1..Len(discoveryGroups[n].APIGroup.Versions) } :
            n \in 1..Len(discoveryGroups) }

\* the group-versions that have published routes, by descriptor
Published == { <<r.Index, GroupVersionString(r.GroupVersion)>> : r \in routes }

PublishedIdentities(k) ==
    UNION { { [GroupVersion |-> r.GroupVersion, Resource |-> key] : key \in DOMAIN r.Storage } :
            r \in { q \in routes : q.Index = k } }

\* C11 as stated: the steps of a group occur in the order Validate,
\* PublishRoutesPerVersion, UpdateDiscoveryIndex, RecordStorageVersions: a step
\* that makes storage-version records is taken for a group whose entry of the
\* discovery index has been appended.
C11_StorageVersionsAfterIndex ==
    [][storageVersions' # storageVersions => Indexed(i)]_vars

\* what holds of every step of installAPIGroups, for the group i it works on
C11_Step ==
    /\ routes' # routes =>
          /\ \A k \in 1..Len(apiGroupInfos) : ~Malformed(apiGroupInfos[k])
          /\ ~Indexed(i)
          /\ storageVersions' = storageVersions
          /\ discoveryGroups' = discoveryGroups
    /\ storageVersions' # storageVersions =>
          /\ RoutesPublished(i)
          /\ ~Indexed(i)
          /\ discoveryGroups' = discoveryGroups
    /\ discoveryGroups' # discoveryGroups =>
          /\ RoutesPublished(i)
          /\ ~Indexed(i)
          /\ (featureGates.StorageVersionAPI /\ featureGates.APIServerIdentity)
                => PublishedIdentities(i) \subseteq storageVersions

\* C11 as amended: the steps of a group occur in the order Validate,
\* PublishRoutesPerVersion, RecordStorageVersions, UpdateDiscoveryIndex: routes
\* are published only after every descriptor passed validation, storage-version
\* records of a group are made after all its routes are published and before
\* its entry of the discovery index is appended, and the entry is appended
\* after both.
C11_StorageVersionsBeforeIndex == [][C11_Step]_vars

\* the storage versions of the first group are recorded and its entry of the
\* discovery index is not yet appended
C11_Witness ==
    /\ pc = "discovery"
    /\ i = 1
    /\ storageVersions # {}
    /\ PublishedIdentities(1) \subseteq storageVersions
    /\ discoveryGroups = <<>>

\* both toggles of storage-version recording are on
BothToggles == featureGates.StorageVersionAPI /\ featureGates.APIServerIdentity

\* descriptor k is past the end of installAPIResources
PastInstallAPIResources(k) == k < i \/ (k = i /\ pc = "discovery")

\* what holds of the storage-version records in every state
C12_Records ==
    /\ ~BothToggles => storageVersions = {}
    /\ BothToggles =>
          \A k \in 1..Len(apiGroupInfos) :
              PastInstallAPIResources(k) => PublishedIdentities(k) \subseteq storageVersions
    /\ storageVersions \subseteq UNION { PublishedIdentities(k) : k \in 1..Len(apiGroupInfos) }

\* the step at the end of installAPIResources returns no error, whatever the toggles
C12_RecordingStep ==
    (pc = "installAPIResources" /\ i <= Len(apiGroupInfos)
        /\ j > Len(apiGroupInfos[i].PrioritizedVersions))
    => (pc' = "discovery" /\ result' = result /\ routes' = routes)

\* C12: storage versions are recorded if and only if both StorageVersionAPI and
\* APIServerIdentity are enabled: with both on, the identity of every resource
\* published for a group is registered; with either off nothing is registered,
\* and the step returns no error either way.
C12_StorageVersionToggles == []C12_Records /\ [][C12_RecordingStep]_vars

\* a successful installation with both toggles on that registered identities
C12_Witness ==
    /\ result = "nil"
    /\ BothToggles
    /\ routes # {}
    /\ storageVersions # {}

(* ------------------------------------------------------------------ *)
(* InstallShadowAPIGroups: the Scheme, preferred versions, adapters     *)
(* ------------------------------------------------------------------ *)

\* the adapters assembled so far and the adapters published
AllAdapters ==
    { shadowv1alpha1storage[n] : n \in DOMAIN shadowv1alpha1storage } \cup PublishedAdapters

\* the Scheme holds the original identity of adapter a as an untyped document
RegisteredUntyped(scheme, a) ==
    /\ GVK(a.Group, a.Version, a.Kind) \in DOMAIN scheme
    /\ scheme[GVK(a.Group, a.Version, a.Kind)] = "unstructured"

\* the discovered groups that the exclusion rules let through
MirroredGroups ==
    { g \in 1..Len(apiGroupResources) : ~ReservedOrSelf(apiGroupResources[g].Group.Name) }

\* the resources discovered group g lists under its preferred version
ListedUnderPreferred(g) ==
    LET preferred == apiGroupResources[g].Group.PreferredVersion.Version
    IN IF preferred \in DOMAIN apiGroupResources[g].VersionedResources
       THEN apiGroupResources[g].VersionedResources[preferred]
       ELSE <<>>

\* what holds of the Scheme in every state
C13_Registered ==
    /\ \A a \in AllAdapters : RegisteredUntyped(Scheme, a)
    /\ routes # {} =>
          \A g \in MirroredGroups : \A n \in 1..Len(ListedUnderPreferred(g)) :
              LET gvk == GVK(apiGroupResources[g].Group.Name,
                             apiGroupResources[g].Group.PreferredVersion.Version,
                             ListedUnderPreferred(g)[n].Kind)
              IN gvk \in DOMAIN Scheme /\ Scheme[gvk] = "unstructured"

\* a step that publishes a route finds the identities of its adapters registered
C13_PublicationStep ==
    routes' # routes =>
        /\ Scheme' = Scheme
        /\ \A r \in routes' \ routes : \A key \in DOMAIN r.Storage :
              RegisteredUntyped(Scheme, r.Storage[key])

\* C13: the original (group, preferred version, kind) of every mirrored resource
\* is registered in the Scheme as an untyped document before any route of the
\* shadow group is published: when a route for a resource becomes published,
\* its identity is already in the Scheme.
C13_SchemeBeforeRoutes == []C13_Registered /\ [][C13_PublicationStep]_vars

\* routes are published for adapters of two groups
C13_Witness ==
    /\ result = "nil"
    /\ \E a, b \in PublishedAdapters : a.Group # b.Group

\* the scan is about to mirror a resource
AboutToMirror ==
    /\ pc = "scan"
    /\ gi \in MirroredGroups
    /\ ri <= Len(ListedUnderPreferred(gi))

\* the identity of the resource the scan is about to mirror
IdentityToMirror ==
    GVK(apiGroupResources[gi].Group.Name,
        apiGroupResources[gi].Group.PreferredVersion.Version,
        ListedUnderPreferred(gi)[ri].Kind)

\* what the registration of one mirrored resource does to the Scheme
C14_RegistrationStep ==
    AboutToMirror =>
        IF IdentityToMirror \notin DOMAIN Scheme
        THEN /\ DOMAIN Scheme' = DOMAIN Scheme \cup {IdentityToMirror}
             /\ Scheme'[IdentityToMirror] = "unstructured"
             /\ \A gvk \in DOMAIN Scheme : Scheme'[gvk] = Scheme[gvk]
             /\ result' = "none"
        ELSE IF Scheme[IdentityToMirror] = "unstructured"
        THEN /\ Scheme' = Scheme
             /\ result' = "none"
             /\ pc' = "scan"
             /\ ri' = ri + 1
             /\ ListedUnderPreferred(gi)[ri].Name \in DOMAIN shadowv1alpha1storage'
        ELSE /\ Scheme' = Scheme
             /\ result' = "panic"
             /\ pc' = "done"

\* an installation stopped by a conflict has published nothing
C14_Aborted ==
    result = "panic" =>
        /\ pc = "done"
        /\ routes = {}
        /\ groupHandlers = <<>>
        /\ discoveryGroups = <<>>
        /\ storageVersions = {}

\* C14: registering an identity the Scheme already holds as an untyped document
\* changes nothing and raises no conflict, as when one scan lists the same kind
\* twice; registering an identity the Scheme holds with another strategy raises
\* a conflict that aborts the installation.
C14_IdempotentRegistration == []C14_Aborted /\ [][C14_RegistrationStep]_vars

\* the scan registered a kind, met it a second time, and then stopped at a kind
\* the Scheme held as a typed one
C14_Witness ==
    /\ result = "panic"
    /\ ri = 3
    /\ GVK(CoreGroup, V1, "Pod") \in DOMAIN Scheme
    /\ DOMAIN shadowv1alpha1storage = {ResPods.Name, ResPodsStatus.Name}

\* C15: only resources listed under the preferred version of their group are
\* mirrored: every adapter, assembled or published, and every type added to the
\* Scheme belongs to a resource that a mirrored group lists under its preferred
\* version, and carries that version; a resource listed only under another
\* version has no adapter, no type in the Scheme and no route.
C15_PreferredVersionOnly ==
    /\ \A a \in AllAdapters :
          \E g \in MirroredGroups :
              /\ apiGroupResources[g].Group.Name = a.Group
              /\ apiGroupResources[g].Group.PreferredVersion.Version = a.Version
              /\ \E n \in 1..Len(ListedUnderPreferred(g)) : ListedUnderPreferred(g)[n].Name = a.Name
    /\ \A gvk \in DOMAIN Scheme \ DOMAIN SchemeAtStart :
          \E g \in MirroredGroups :
              /\ apiGroupResources[g].Group.Name = gvk.Group
              /\ apiGroupResources[g].Group.PreferredVersion.Version = gvk.Version
              /\ \E n \in 1..Len(ListedUnderPreferred(g)) : ListedUnderPreferred(g)[n].Kind = gvk.Kind

\* a successful installation whose only mirrored group lists resources under a
\* version that is not its preferred one
C15_Witness ==
    /\ result = "nil"
    /\ routes # {}
    /\ Len(apiGroupResources) = 1
    /\ apiGroupResources[1].Group.Name = AppsGroup
    /\ apiGroupResources[1].Group.PreferredVersion.Version = V1
    /\ apiGroupResources[1].VersionedResources[V2] # <<>>

\* C16: when two discovered names lower-case to the same name, the installation
\* is not rejected for it, and the published map holds under each lower-cased
\* name one entry, bound to the adapter of one of the names that share it.
C16_CollisionKeepsOne ==
    /\ result \notin ValidationErrors
    /\ \A r \in routes :
          /\ DOMAIN r.Storage = { ToLower(n) : n \in DOMAIN shadowv1alpha1storage }
          /\ \A key \in DOMAIN r.Storage :
                \E n \in DOMAIN shadowv1alpha1storage :
                    ToLower(n) = key /\ r.Storage[key] = shadowv1alpha1storage[n]

\* a successful installation of a map in which two names share a lower-cased name
C16_Witness ==
    /\ result = "nil"
    /\ routes # {}
    /\ \E n, m \in DOMAIN shadowv1alpha1storage : n # m /\ ToLower(n) = ToLower(m)

\* what holds of the routes in every state
C17_NoRouteForEmptyVersion ==
    /\ \A r \in routes : HasResources(apiGroupInfos[r.Index], r.GroupVersion)
    /\ result = "nil" => \A k \in 1..Len(apiGroupInfos) : RoutesPublished(k) /\ Indexed(k)

\* the turn of the loop of installAPIResources for a version without resources
C17_SkipStep ==
    (pc = "installAPIResources" /\ i <= Len(apiGroupInfos)
        /\ j <= Len(apiGroupInfos[i].PrioritizedVersions)
        /\ ~HasResources(apiGroupInfos[i], apiGroupInfos[i].PrioritizedVersions[j]))
    => (j' = j + 1 /\ i' = i /\ pc' = pc /\ result' = result /\ routes' = routes)

\* C17: a version of PrioritizedVersions whose resource map is empty is skipped
\* during route publication without an error: it gets no route, the other
\* versions are still published and the installation of the group succeeds.
C17_EmptyVersionSkipped == []C17_NoRouteForEmptyVersion /\ [][C17_SkipStep]_vars

\* a successful installation of a group whose first version has no resources and
\* whose second version is published
C17_Witness ==
    /\ result = "nil"
    /\ \E k \in 1..Len(apiGroupInfos) :
          /\ Len(apiGroupInfos[k].PrioritizedVersions) = 2
          /\ ~HasResources(apiGroupInfos[k], apiGroupInfos[k].PrioritizedVersions[1])
          /\ \E r \in routes :
                r.Index = k /\ r.GroupVersion = apiGroupInfos[k].PrioritizedVersions[2]

\* C18: every adapter carries the descriptor of its discovered resource: its
\* name, kind, namespaced flag and short names, with the name of the original
\* group as group and the preferred version of that group as version; it is
\* stored under its name.
C18_AdapterCarriesDescriptor ==
    /\ \A n \in DOMAIN shadowv1alpha1storage : shadowv1alpha1storage[n].Name = n
    /\ \A a \in AllAdapters :
          \E g \in MirroredGroups : \E n \in 1..Len(ListedUnderPreferred(g)) :
              LET apiresource == ListedUnderPreferred(g)[n]
              IN /\ a.Name = apiresource.Name
                 /\ a.Kind = apiresource.Kind
                 /\ a.Namespaced = apiresource.Namespaced
                 /\ a.ShortNames = apiresource.ShortNames
                 /\ a.Group = apiGroupResources[g].Group.Name
                 /\ a.Version = apiGroupResources[g].Group.PreferredVersion.Version
                 /\ DOMAIN a = {"Name", "Kind", "Namespaced", "ShortNames", "Group", "Version"}

\* a cluster-scoped adapter with short names and a namespaced adapter are published
C18_Witness ==
    /\ result = "nil"
    /\ \E a, b \in PublishedAdapters :
          ~a.Namespaced /\ a.ShortNames # <<>> /\ b.Namespaced

(* ------------------------------------------------------------------ *)
(* The cluster status controller: GetClusterStatus and setClusterStatus *)
(* ------------------------------------------------------------------ *)

\* the status the last returned call of setClusterStatus stored
LastStored == stored[Len(stored)]

\* what holds of the stored status and of the returned ones in every state
C19_Separate ==
    /\ (stored = <<>> /\ lock # "collector") => clusterStatus = Nil
    /\ (stored # <<>> /\ lock # "collector") =>
          clusterStatus \in DOMAIN heap /\ heap[clusterStatus] = LastStored
    /\ \A r \in Readers :
          ret[r] # Nil =>
              /\ ret[r] # clusterStatus
              /\ \A q \in Readers \ {r} : ret[q] # ret[r]

\* what GetClusterStatus returns, and what a change of a returned status changes
C19_Step ==
    \A r \in Readers :
        /\ (rpc[r] = "locked" /\ rpc'[r] = "unlock") =>
              IF stored = <<>>
              THEN ret'[r] = Nil
              ELSE /\ ret'[r] # Nil
                   /\ ret'[r] \notin DOMAIN heap
                   /\ ret'[r] \in DOMAIN heap'
                   /\ heap'[ret'[r]] = LastStored
        /\ (rpc[r] = "returned" /\ ret[r] # Nil /\ ret[r] \in DOMAIN heap'
               /\ heap'[ret[r]] # heap[ret[r]]) =>
              \A a \in (DOMAIN heap) \ {ret[r]} : a \in DOMAIN heap' /\ heap'[a] = heap[a]

\* C19: GetClusterStatus returns nil as long as no call of setClusterStatus has
\* returned; afterwards it returns a new object that holds the status the last
\* returned setClusterStatus stored, and a change the caller makes to it
\* changes neither the stored status nor what another call returns.
C19_GetReturnsDeepCopy == []C19_Separate /\ [][C19_Step]_vars

\* a caller has changed the status it got, and another caller holds the status
\* the last setClusterStatus stored
C19_Witness ==
    /\ stored # <<>>
    /\ \E r, q \in Readers :
          /\ rpc[r] = "returned" /\ ret[r] # Nil
          /\ heap[ret[r]].KubernetesVersion = "changed"
          /\ rpc[q] = "returned" /\ ret[q] # Nil
          /\ heap[ret[q]] = LastStored

\* the goroutine of Run is inside the critical section of setClusterStatus
InSetClusterStatus == cpc \in {"locked", "assign", "now", "unlock"}

\* caller r is inside the critical section of GetClusterStatus
InGetClusterStatus(r) == rpc[r] \in {"locked", "unlock"}

\* C20: under every interleaving of the collector and the callers of
\* GetClusterStatus the critical sections exclude one another, and every
\* non-nil status GetClusterStatus returns is the status one collection round
\* built, whole, with its LastObservedTime set.
C20_MutualExclusion ==
    /\ ~(InSetClusterStatus /\ \E r \in Readers : InGetClusterStatus(r))
    /\ \A r, q \in Readers : (InGetClusterStatus(r) /\ InGetClusterStatus(q)) => r = q
    /\ \A r \in Readers :
          (rpc[r] = "unlock" /\ ret[r] # Nil) =>
              LET s == heap[ret[r]]
              IN /\ s.LastObservedTime # ZeroTime
                 /\ \E k \in 1..Len(stored) : s = stored[k]
                 /\ \E answer \in ClusterAnswers :
                       /\ ~answer.Version.Err
                       /\ s = [StatusOf(answer) EXCEPT !.LastObservedTime = s.LastObservedTime]

\* the second round has assigned its status and not yet set its time, a caller
\* holds the status of the first round, and the other caller is about to call
C20_Witness ==
    /\ cpc = "now"
    /\ Len(stored) = 1
    /\ heap[clusterStatus].LastObservedTime = ZeroTime
    /\ \E r, q \in Readers :
          /\ rpc[r] = "returned" /\ ret[r] # Nil /\ heap[ret[r]] = stored[1]
          /\ rpc[q] = "idle"

(* ------------------------------------------------------------------ *)
(* The cluster status controller: Run and collectingClusterStatus      *)
(* ------------------------------------------------------------------ *)

\* the goroutine of Run collects no longer: Run has returned, or it has died
RunOver ==
    cpc \notin {"Run", "UntilWithContext", "setClusterStatus", "locked", "assign", "now", "unlock"}

\* what holds of Run in every state
C21_Gated ==
    /\ rounds > 0 => (podListerSynced /\ nodeListerSynced)
    /\ (clusterStatus # Nil \/ stored # <<>> \/ InSetClusterStatus) => rounds > 0
    /\ RunOver => ctxDone

\* no collection round starts once the context is cancelled
C21_NoRoundAfterCancel == ctxDone => rounds' = rounds

\* C21: Run collects nothing before both informer caches have synced; when the
\* context is cancelled before that, Run returns without a round and without a
\* status; once synced it goes on collecting until the context is cancelled,
\* and starts no round after that.
C21_RunGatedBySyncAndContext == []C21_Gated /\ [][C21_NoRoundAfterCancel]_vars

\* C22: a collection round survives the failure of any of its queries: the
\* goroutine never dies in a round, every round that was started has stored
\* its status by the time the next one may start, and each stored status is
\* what one round's answers give, the failed fields empty.
C22_RoundToleratesFailures ==
    /\ cpc # "panic"
    /\ cpc \in {"UntilWithContext", "returned"} => Len(stored) = rounds
    /\ \A k \in 1..Len(stored) :
          \E answer \in ClusterAnswers :
              stored[k] = [StatusOf(answer) EXCEPT !.LastObservedTime = stored[k].LastObservedTime]

\* ---------------------------------------------------------------------------
\* C23

\* the nodes of the list that carry a Ready condition with the given status
WithReady(st) ==
    { k \in 1..Len(nodes) :
        \E c \in 1..Len(nodes[k].Status.Conditions) :
            /\ nodes[k].Status.Conditions[c].Type = "Ready"
            /\ nodes[k].Status.Conditions[c].Status = st
            /\ \A b \in 1..(c - 1) : nodes[k].Status.Conditions[b].Type # "Ready" }

\* the nodes of the list that carry no Ready condition
WithoutReady ==
    { k \in 1..Len(nodes) :
        \A c \in 1..Len(nodes[k].Status.Conditions) :
            nodes[k].Status.Conditions[c].Type # "Ready" }

\* the counters are those of a partition by the (first) Ready condition
C23_Counted ==
    /\ nodeStatistics.LostNodes = Cardinality(WithoutReady)
    /\ nodeStatistics.ReadyNodes = Cardinality(WithReady("True"))
    /\ nodeStatistics.NotReadyNodes = Cardinality(WithReady("False"))
    /\ nodeStatistics.UnknownNodes = Cardinality(WithReady("Unknown"))

C23_Sum ==
    nodeStatistics.ReadyNodes + nodeStatistics.NotReadyNodes
        + nodeStatistics.UnknownNodes + nodeStatistics.LostNodes

C23_PartitionOfKnownStatuses ==
    npc = "returned" =>
        /\ C23_Counted
        /\ C23_Sum = Len(nodes) - Cardinality({ k \in 1..Len(nodes) : nodes[k] = NodeReadyUnset })
\* ---------------------------------------------------------------------------
\* C24

\* the entry advertises a version, and its preferred version is one of them
WellFormedEntry(apiGroup) ==
    /\ Len(apiGroup.Versions) >= 1
    /\ \E m \in 1..Len(apiGroup.Versions) : apiGroup.Versions[m] = apiGroup.PreferredVersion

\* C24: every entry of the discovery index advertises at least one version and
\* its preferred version is among the advertised ones; in particular no shadow
\* group with an empty version list is added when every discovered group is
\* excluded or has no resources.
C24_EntryAdvertisesPreferred ==
    \A n \in 1..Len(discoveryGroups) : WellFormedEntry(discoveryGroups[n].APIGroup)
\* ---------------------------------------------------------------------------
\* C25

\* the (group name, resource name) pairs that survive the exclusion rules
SurvivingNames == { <<p[1], p[2].Name>> : p \in Surviving }

\* the scan of the discovered groups is over and the shadow group assembled
ScanOver == apiGroupInfos # <<>>

\* C25: once the discovered groups are scanned, the shadow resource map holds as
\* many adapters as there are (group, resource) pairs that survive the exclusion
\* rules under the preferred versions, and every surviving resource has its own
\* adapter in it, whatever the other groups expose.
C25_AdapterPerSurvivor ==
    ScanOver =>
        /\ MapLen(shadowv1alpha1storage) = Cardinality(SurvivingNames)
        /\ \A p \in Surviving :
              /\ p[2].Name \in DOMAIN shadowv1alpha1storage
              /\ AdapterOf(shadowv1alpha1storage[p[2].Name], p)
\* ---------------------------------------------------------------------------
\* C26

\* two runs on the same input have both returned without error
BothRunsInstalled ==
    /\ firstRun.done
    /\ firstRun.result = "nil"
    /\ pc = "done"
    /\ result = "nil"

\* C26: two runs of the installation on the same discovery answer, the same
\* configuration and the same initial state that both succeed publish the same
\* binding of keys to adapters and the same entries of the discovery index, also
\* when resource names collide after lower-casing.
C26_Deterministic ==
    BothRunsInstalled =>
        /\ firstRun.routes = routes
        /\ firstRun.discoveryGroups = discoveryGroups
====
